---- MODULE Spec2Model ----
(***************************************************************************)
(* Job lifecycle of the download orchestrator: the durable store           *)
(* (app/repository.py, app/db.py), the scheduler, the worker and the       *)
(* control-plane operations (app/queue_manager.py).                        *)
(*                                                                         *)
(* Every store call is one SQL statement in its own connection and is one  *)
(* atomic step.  A worker run, a pause request and a delete request are    *)
(* sequences of such steps and interleave freely with each other.          *)
(***************************************************************************)
EXTENDS Integers, Sequences, FiniteSets, TLC

\* ------------------------------------------------------------------ bounds
MaxClock == 1        \* readings of the wall clock: 0..MaxClock
MaxBytes == 2        \* byte counts an extractor reports: 0..MaxBytes
MaxAttemptMax == 3   \* no retry request once attempt_max has reached it
MaxAttemptRows == 2  \* no run is started once that many attempt ids are used

\* ------------------------------------------------------- program constants
ytdlp_enable_youtube_fallback == TRUE

\* ids the control plane may hand out; jobs share nothing but the pool's
\* capacity, and each specification says how many of them are enqueued
JobIds == {1, 2, 3}
Null == -1

\* requested_url values, by host (the control plane admits http(s) URLs only)
Urls == {"youtube.com", "example.com"}

\* error messages an extractor may raise, as lower/upper-case word lists
Messages ==
  { <<"HTTP", "Error", "403", "Forbidden">>,
    <<"Video", "unavailable">> }

Lower(w) ==
  CASE w = "HTTP" -> "http"
    [] w = "Error" -> "error"
    [] w = "Forbidden" -> "forbidden"
    [] w = "Video" -> "video"
    [] OTHER -> w

RETRYABLE_ERROR_TOKENS ==
  { <<"403">>, <<"forbidden">>, <<"sabr">>, <<"missing", "a", "url">>,
    <<"unable", "to", "download", "video", "data">> }

\* token in lowered: the token's words occur contiguously in the message
Contains(msg, tok) ==
  \E i \in 1..Len(msg) :
     /\ i + Len(tok) - 1 <= Len(msg)
     /\ \A k \in 1..Len(tok) : Lower(msg[i + k - 1]) = tok[k]

is_youtube_url(url) == url \in {"youtube.com", "youtu.be"}

_is_retryable(message, runtime_profile, attempt_no, attempt_max) ==
  IF runtime_profile # "primary" \/ attempt_no >= attempt_max
    THEN FALSE
    ELSE \E tok \in RETRYABLE_ERROR_TOKENS : Contains(message, tok)

\* attempts = ["primary"] + ["fallback"] if enabled and youtube
AttemptPlan(url) ==
  IF ytdlp_enable_youtube_fallback /\ is_youtube_url(url)
    THEN <<"primary", "fallback">>
    ELSE <<"primary">>

\* round((downloaded / total) * 100, 2), in hundredths of a percent
Percent(downloaded, total) == (2 * downloaded * 10000 + total) \div (2 * total)

\* info dicts an extractor may return, by what json.dumps makes of them:
\* "plain" holds JSON values only, "object" holds a value of another type
\* under a string key, "cycle" contains itself, "tuple_key" has a key that
\* is a tuple
Infos == {"plain", "object", "cycle", "tuple_key"}
PlainInfos == {"plain"}

\* json.dumps(value, ensure_ascii=False[, default=str]): the text, or the
\* exception raised (circular references are checked by the encoder itself
\* and keys never reach `default`)
json_dumps(value, with_default) ==
  CASE value = "plain" -> [raised |-> "null", message |-> << >>, text |-> "json"]
    [] value = "object" ->
         IF with_default
           THEN [raised |-> "null", message |-> << >>, text |-> "json_str"]
           ELSE [raised |-> "TypeError",
                 message |-> <<"Object", "is", "not", "JSON", "serializable">>,
                 text |-> "null"]
    [] value = "cycle" ->
         [raised |-> "ValueError",
          message |-> <<"Circular", "reference", "detected">>, text |-> "null"]
    [] value = "tuple_key" ->
         [raised |-> "TypeError",
          message |-> <<"keys", "must", "be", "str">>, text |-> "null"]

\* repository.py _to_json_string: try json.dumps, except TypeError retry
\* with default=str
_to_json_string(value) ==
  LET first == json_dumps(value, FALSE) IN
    IF first.raised = "TypeError" THEN json_dumps(value, TRUE) ELSE first

VARIABLES
  rows,        \* table downloads: job id -> row
  attempts,    \* table download_attempts: set of attempt rows
  lastAttempt, \* AUTOINCREMENT counter of download_attempts.id
  nextId,      \* number of ids generated so far (ids are never reused)
  clock,       \* wall clock read by utc_now_iso()
  active,      \* QueueManager._active: set of job ids with a handle
  cancel,      \* cancel_event of the current run of each job
  worker,      \* position and locals of the _worker run of each job
  sched,       \* scheduler: ids fetched by run_once and not yet started
  ctl,         \* in-flight pause/delete request of each caller on each job
  max_concurrent_downloads, \* QueueManager.max_concurrent_downloads, set at construction
  files,       \* regular files on disk, by their real absolute path
  record,      \* the record each delete request read (its two path columns)
  starting     \* the scheduler thread inside _try_start_job, holding _active_lock

vars == << rows, attempts, lastAttempt, nextId, clock, active, cancel,
           worker, sched, ctl, max_concurrent_downloads, files, record, starting >>

\* ------------------------------------------------------------ the files
\* A path string is a sequence of tokens: "/" and "\\" are the two
\* separator characters, a token that starts with a dot is an extension and
\* every other token is a run of name characters.  A location on disk is the
\* sequence of the components of a real absolute path.

base_download_dir == <<"/", "data">>

Extensions == {".mp4", ".info.json", ".jpg", ".webp", ".png"}

\* the one symbolic link of the tree: /data/link -> /etc
Symlinks == { [ at |-> << <<"data">>, <<"link">> >>, to |-> << <<"etc">> >> ] }

\* the files of the machine at start: two finished downloads with their
\* sidecars and a subdirectory inside the storage root, and files outside
InitialFiles ==
  { << <<"data">>, <<"a", ".mp4">> >>,
    << <<"data">>, <<"a", ".info.json">> >>,
    << <<"data">>, <<"a", ".jpg">> >>,
    << <<"data">>, <<"a", ".webp">> >>,
    << <<"data">>, <<"a", ".png">> >>,
    << <<"data">>, <<"b", ".mp4">> >>,
    << <<"data">>, <<"b", ".jpg">> >>,
    << <<"data">>, <<"etc">>, <<"passwd">> >>,
    << <<"etc">>, <<"passwd">> >>,
    << <<"etc">>, <<"passwd", ".jpg">> >> }

\* path strings a request or a stored column may hold: a media file and its
\* thumbnail, a path below a subdirectory, paths with .. segments, an
\* absolute path, backslashes, and a path through the symbolic link
InsidePaths ==
  { <<"a", ".mp4">>, <<"a", ".jpg">>, <<"etc", "/", "passwd">> }

EscapingPaths ==
  { <<"..", "/", "..", "/", "etc", "/", "passwd">>,
    <<"..", "/", "etc", "/", "passwd", ".mp4">>,
    <<"/", "etc", "/", "passwd">>,
    <<"..", "\\", "..", "\\", "etc", "\\", "passwd">>,
    <<"link", "/", "passwd">> }

StoredPaths == InsidePaths \cup EscapingPaths

\* relative_path.replace("\\", "/")
replace_backslash(path) ==
  [ i \in 1..Len(path) |-> IF path[i] = "\\" THEN "/" ELSE path[i] ]

\* str.lstrip("/")
RECURSIVE lstrip_slash(_)
lstrip_slash(path) ==
  IF path # << >> /\ Head(path) = "/" THEN lstrip_slash(Tail(path)) ELSE path

\* os.path.join(base, path): an absolute second argument replaces the first
join(base, path) ==
  IF path # << >> /\ Head(path) = "/" THEN path ELSE base \o <<"/">> \o path

\* path.split("/") without the empty components
RECURSIVE Components(_)
Components(path) ==
  IF path = << >> THEN << >>
  ELSE IF Head(path) = "/" THEN Components(Tail(path))
  ELSE LET rest == Components(Tail(path)) IN
         IF Len(path) > 1 /\ path[2] # "/"
           THEN << <<Head(path)>> \o Head(rest) >> \o Tail(rest)
           ELSE << <<Head(path)>> >> \o rest

\* os.path.realpath of an absolute path: ".." steps up (never above the
\* root) and a symbolic link is replaced by its target
RECURSIVE Resolve(_, _)
Resolve(done, todo) ==
  IF todo = << >> THEN done
  ELSE IF Head(todo) = <<"..">>
    THEN Resolve(IF done = << >> THEN << >> ELSE SubSeq(done, 1, Len(done) - 1),
                 Tail(todo))
  ELSE LET at == Append(done, Head(todo)) IN
         IF \E l \in Symlinks : l.at = at
           THEN Resolve((CHOOSE l \in Symlinks : l.at = at).to, Tail(todo))
           ELSE Resolve(at, Tail(todo))

realpath(path) == Resolve(<< >>, Components(path))

\* os.path.commonpath([a, b]) of two absolute paths, by components
RECURSIVE commonpath(_, _)
commonpath(a, b) ==
  IF a = << >> \/ b = << >> \/ Head(a) # Head(b) THEN << >>
  ELSE << Head(a) >> \o commonpath(Tail(a), Tail(b))

\* os.path.splitext(path)[0]: the extension goes when it ends the last
\* component and does not begin it
splitext(path) ==
  IF /\ Len(path) >= 2
     /\ path[Len(path)] \in Extensions
     /\ path[Len(path) - 1] # "/"
    THEN SubSeq(path, 1, Len(path) - 1)
    ELSE path

\* the containment check is made on the path as written
_safe_storage_path_as_written(relative_path) ==
  IF relative_path = << >> THEN << >>
  ELSE LET normalized == lstrip_slash(replace_backslash(relative_path))
           full_path == join(base_download_dir, normalized)
           base == Components(base_download_dir)
       IN IF commonpath(Components(full_path), base) # base THEN << >>
          ELSE realpath(full_path)

\* queue_manager.py _safe_storage_path; << >> stands for None
_safe_storage_path(relative_path) ==
  IF relative_path = << >> THEN << >>
  ELSE LET normalized == lstrip_slash(replace_backslash(relative_path))
           full_path == realpath(join(base_download_dir, normalized))
           base == realpath(base_download_dir)
       IN IF commonpath(full_path, base) # base THEN << >> ELSE full_path

\* queue_manager.py _delete_local_files: the files left on disk
_delete_local_files(media_path, thumb_path) ==
  LET base_no_ext == splitext(media_path)
      candidates ==
        ( IF media_path # << >>
            THEN {media_path} \cup
                 { base_no_ext \o <<ext>> : ext \in {".info.json", ".jpg", ".webp", ".png"} }
            ELSE {} )
        \cup ( IF thumb_path # << >> THEN {thumb_path} ELSE {} )
  IN files \ { _safe_storage_path(candidate) : candidate \in candidates }

\* queue_manager.py _resolve_media_path and _resolve_thumbnail_path: the info
\* dicts name no file and no file under the storage root carries the id of
\* the video, so both find nothing
_resolve_media_path == << >>
_resolve_thumbnail_path == << >>

\* ------------------------------------------------------------- the store

Exists(id) == id \in DOMAIN rows

\* repository.py create_download: INSERT ... VALUES (..., 'queued', 0, 0, NULL, ...)
create_download(id, url, now) ==
  [ r \in (DOMAIN rows) \cup {id} |->
      IF r = id
        THEN [ url |-> url, status |-> "queued",
               progress_percent |-> 0, downloaded_bytes |-> 0,
               total_bytes |-> Null, speed_bps |-> Null, eta_seconds |-> Null,
               runtime_profile |-> "null",
               attempt_current |-> 0, attempt_max |-> 1,
               last_exception_type |-> "null", error_message |-> <<>>,
               metadata_json |-> "null",
               media_local_path |-> << >>, thumbnail_local_path |-> << >>,
               created_at |-> now,
               paused_at |-> Null, completed_at |-> Null, failed_at |-> Null,
               updated_at |-> now ]
        ELSE rows[r] ]

\* UPDATE downloads SET ... WHERE id = ? AND cond, with cursor.rowcount
UpdateWhere(id, cond, new) ==
  IF Exists(id) /\ cond
    THEN [tbl |-> [rows EXCEPT ![id] = new], rowcount |-> 1]
    ELSE [tbl |-> rows, rowcount |-> 0]

\* begin without the status predicate
set_downloading_any_status(id, attempt_current, attempt_max, runtime_profile, now) ==
  UpdateWhere(id, TRUE,
    [rows[id] EXCEPT
       !.status = "downloading",
       !.attempt_current = attempt_current,
       !.attempt_max = attempt_max,
       !.runtime_profile = runtime_profile,
       !.error_message = <<>>,
       !.last_exception_type = "null",
       !.updated_at = now])

\* repository.py set_downloading: WHERE id = ? AND status IN ('queued', 'retrying')
set_downloading(id, attempt_current, attempt_max, runtime_profile, now) ==
  UpdateWhere(id, rows[id].status \in {"queued", "retrying"},
    [rows[id] EXCEPT
       !.status = "downloading",
       !.attempt_current = attempt_current,
       !.attempt_max = attempt_max,
       !.runtime_profile = runtime_profile,
       !.error_message = <<>>,
       !.last_exception_type = "null",
       !.updated_at = now])

\* the pause of a queued job without the status predicate
pause_queued_any_status(id, now) ==
  UpdateWhere(id, TRUE,
    [rows[id] EXCEPT !.status = "paused", !.paused_at = now, !.updated_at = now])

\* the pause of a queued job does not record when it happened
pause_queued_without_stamp(id, now) ==
  UpdateWhere(id, rows[id].status = "queued",
    [rows[id] EXCEPT !.status = "paused", !.updated_at = now])

\* repository.py pause_queued: WHERE id = ? AND status = 'queued'
pause_queued(id, now) ==
  UpdateWhere(id, rows[id].status = "queued",
    [rows[id] EXCEPT !.status = "paused", !.paused_at = now, !.updated_at = now])

\* resume without the status predicate
resume_paused_any_status(id, now) ==
  UpdateWhere(id, TRUE,
    [rows[id] EXCEPT
       !.status = "queued",
       !.paused_at = Null,
       !.error_message = <<>>,
       !.eta_seconds = Null,
       !.speed_bps = Null,
       !.updated_at = now])

\* repository.py resume_paused: WHERE id = ? AND status = 'paused'
resume_paused(id, now) ==
  UpdateWhere(id, rows[id].status = "paused",
    [rows[id] EXCEPT
       !.status = "queued",
       !.paused_at = Null,
       !.error_message = <<>>,
       !.eta_seconds = Null,
       !.speed_bps = Null,
       !.updated_at = now])

\* retry keeps the byte count of the failed run
retry_download_keeps_bytes(id, now) ==
  UpdateWhere(id, rows[id].status \in {"failed", "paused"},
    [rows[id] EXCEPT
       !.status = "queued",
       !.paused_at = Null,
       !.failed_at = Null,
       !.completed_at = Null,
       !.error_message = <<>>,
       !.last_exception_type = "null",
       !.progress_percent = 0,
       !.total_bytes = Null,
       !.speed_bps = Null,
       !.eta_seconds = Null,
       !.attempt_current = 0,
       !.attempt_max = @ + 1,
       !.updated_at = now])

\* retry counts the attempt instead of raising the cap
retry_download_counts_attempt(id, now) ==
  UpdateWhere(id, rows[id].status \in {"failed", "paused"},
    [rows[id] EXCEPT
       !.status = "queued",
       !.paused_at = Null,
       !.failed_at = Null,
       !.completed_at = Null,
       !.error_message = <<>>,
       !.last_exception_type = "null",
       !.progress_percent = 0,
       !.downloaded_bytes = 0,
       !.total_bytes = Null,
       !.speed_bps = Null,
       !.eta_seconds = Null,
       !.attempt_current = @ + 1,
       !.updated_at = now])

\* repository.py retry_download: WHERE id = ? AND status IN ('failed', 'paused')
retry_download(id, now) ==
  UpdateWhere(id, rows[id].status \in {"failed", "paused"},
    [rows[id] EXCEPT
       !.status = "queued",
       !.paused_at = Null,
       !.failed_at = Null,
       !.completed_at = Null,
       !.error_message = <<>>,
       !.last_exception_type = "null",
       !.progress_percent = 0,
       !.downloaded_bytes = 0,
       !.total_bytes = Null,
       !.speed_bps = Null,
       !.eta_seconds = Null,
       !.attempt_current = 0,
       !.attempt_max = @ + 1,
       !.updated_at = now])

\* the forced pause leaves the message of the row alone
set_paused_without_message(id, now) ==
  UpdateWhere(id, TRUE,
    [rows[id] EXCEPT
       !.status = "paused",
       !.paused_at = now,
       !.speed_bps = Null,
       !.eta_seconds = Null,
       !.updated_at = now])

\* the forced pause applies to a downloading row only
set_paused_only_downloading(id, now) ==
  UpdateWhere(id, rows[id].status = "downloading",
    [rows[id] EXCEPT
       !.status = "paused",
       !.paused_at = now,
       !.error_message = <<"paused_by_user">>,
       !.speed_bps = Null,
       !.eta_seconds = Null,
       !.updated_at = now])

\* repository.py set_paused: WHERE id = ?
set_paused(id, now) ==
  UpdateWhere(id, TRUE,
    [rows[id] EXCEPT
       !.status = "paused",
       !.paused_at = now,
       !.error_message = <<"paused_by_user">>,
       !.speed_bps = Null,
       !.eta_seconds = Null,
       !.updated_at = now])

\* the failure is stored under a status name of its own
set_failed_writes_error(id, message, exception_type, runtime_profile, attempt_current, attempt_max, now) ==
  UpdateWhere(id, TRUE,
    [rows[id] EXCEPT
       !.status = "error",
       !.error_message = message,
       !.last_exception_type = exception_type,
       !.runtime_profile = runtime_profile,
       !.attempt_current = attempt_current,
       !.attempt_max = attempt_max,
       !.failed_at = now,
       !.speed_bps = Null,
       !.eta_seconds = Null,
       !.updated_at = now])

\* repository.py set_failed: WHERE id = ?
set_failed(id, message, exception_type, runtime_profile, attempt_current, attempt_max, now) ==
  UpdateWhere(id, TRUE,
    [rows[id] EXCEPT
       !.status = "failed",
       !.error_message = message,
       !.last_exception_type = exception_type,
       !.runtime_profile = runtime_profile,
       !.attempt_current = attempt_current,
       !.attempt_max = attempt_max,
       !.failed_at = now,
       !.speed_bps = Null,
       !.eta_seconds = Null,
       !.updated_at = now])

\* repository.py set_completed: WHERE id = ?  (of the metadata columns only
\* metadata_json and the two local paths are modelled)
set_completed(id, runtime_profile, attempt_current, attempt_max, metadata_json, media_local_path, thumbnail_local_path, now) ==
  UpdateWhere(id, TRUE,
    [rows[id] EXCEPT
       !.status = "completed",
       !.runtime_profile = runtime_profile,
       !.attempt_current = attempt_current,
       !.attempt_max = attempt_max,
       !.progress_percent = 10000,
       !.speed_bps = Null,
       !.eta_seconds = Null,
       !.error_message = <<>>,
       !.last_exception_type = "null",
       !.metadata_json = metadata_json,
       !.media_local_path = media_local_path,
       !.thumbnail_local_path = thumbnail_local_path,
       !.completed_at = now,
       !.updated_at = now])

\* repository.py update_progress: WHERE id = ?
update_progress(id, progress_percent, downloaded_bytes, total_bytes, speed_bps, eta_seconds, now) ==
  UpdateWhere(id, TRUE,
    [rows[id] EXCEPT
       !.progress_percent = progress_percent,
       !.downloaded_bytes = downloaded_bytes,
       !.total_bytes = total_bytes,
       !.speed_bps = speed_bps,
       !.eta_seconds = eta_seconds,
       !.updated_at = now])

\* recovery also fails the rows that wait in the queue
recover_interrupted_downloads_and_queued(now) ==
  [ tbl |-> [ r \in DOMAIN rows |->
                IF rows[r].status \in {"downloading", "queued"}
                  THEN [rows[r] EXCEPT
                          !.status = "failed",
                          !.error_message = <<"interrupted_by_restart">>,
                          !.failed_at = now,
                          !.updated_at = now]
                  ELSE rows[r] ],
    rowcount |-> Cardinality({r \in DOMAIN rows : rows[r].status \in {"downloading", "queued"}}) ]

\* repository.py recover_interrupted_downloads: WHERE status = 'downloading'
recover_interrupted_downloads(now) ==
  [ tbl |-> [ r \in DOMAIN rows |->
                IF rows[r].status = "downloading"
                  THEN [rows[r] EXCEPT
                          !.status = "failed",
                          !.error_message = <<"interrupted_by_restart">>,
                          !.failed_at = now,
                          !.updated_at = now]
                  ELSE rows[r] ],
    rowcount |-> Cardinality({r \in DOMAIN rows : rows[r].status = "downloading"}) ]

\* the queue is read newest first
QueuedOrders_newest_first(limit) ==
  LET q == {r \in DOMAIN rows : rows[r].status = "queued"}
      n == IF Cardinality(q) < limit THEN Cardinality(q) ELSE limit
  IN { s \in [1..n -> q] :
         /\ \A a, b \in 1..n : a < b => s[a] # s[b]
         /\ \A a, b \in 1..n : a < b => rows[s[a]].created_at >= rows[s[b]].created_at
         /\ \A r \in q : (\A a \in 1..n : s[a] # r) =>
               \A a \in 1..n : rows[s[a]].created_at >= rows[r].created_at }

\* repository.py get_queued_ids: ORDER BY created_at ASC LIMIT ?
\* (rows with equal created_at come in any order)
QueuedOrders(limit) ==
  LET q == {r \in DOMAIN rows : rows[r].status = "queued"}
      n == IF Cardinality(q) < limit THEN Cardinality(q) ELSE limit
  IN { s \in [1..n -> q] :
         /\ \A a, b \in 1..n : a < b => s[a] # s[b]
         /\ \A a, b \in 1..n : a < b => rows[s[a]].created_at <= rows[s[b]].created_at
         /\ \A r \in q : (\A a \in 1..n : s[a] # r) =>
               \A a \in 1..n : rows[s[a]].created_at <= rows[r].created_at }

\* the attempt is numbered by the rows the job already has
create_attempt_numbers_by_job(id, attempt_no, runtime_profile, now) ==
  IF Exists(id)
    THEN [ tbl |-> attempts \cup
                   { [ id |-> lastAttempt + 1, download_id |-> id,
                       attempt_no |-> Cardinality({a \in attempts : a.download_id = id}) + 1,
                       runtime_profile |-> runtime_profile,
                       status |-> "started", error_message |-> <<>>,
                       exception_type |-> "null", ended_at |-> Null ] },
           lastrowid |-> lastAttempt + 1, raised |-> FALSE ]
    ELSE [ tbl |-> attempts, lastrowid |-> lastAttempt, raised |-> TRUE ]

\* db.py download_attempts with FOREIGN KEY ... ON DELETE CASCADE, foreign_keys=ON:
\* repository.py create_attempt inserts a 'started' row; the insert raises
\* IntegrityError when the download row does not exist
create_attempt(id, attempt_no, runtime_profile, now) ==
  IF Exists(id)
    THEN [ tbl |-> attempts \cup
                   { [ id |-> lastAttempt + 1, download_id |-> id,
                       attempt_no |-> attempt_no, runtime_profile |-> runtime_profile,
                       status |-> "started", error_message |-> <<>>,
                       exception_type |-> "null", ended_at |-> Null ] },
           lastrowid |-> lastAttempt + 1, raised |-> FALSE ]
    ELSE [ tbl |-> attempts, lastrowid |-> lastAttempt, raised |-> TRUE ]

\* repository.py finalize_attempt: UPDATE download_attempts ... WHERE id = ?
finalize_attempt(attempt_id, status, error_message, exception_type, now) ==
  { IF a.id = attempt_id
      THEN [a EXCEPT !.status = status, !.error_message = error_message,
                     !.exception_type = exception_type, !.ended_at = now]
      ELSE a : a \in attempts }

\* the DELETE statement is taken to have removed a row
delete_row_reports_success(id) ==
  [ tbl |-> [r \in (DOMAIN rows) \ {id} |-> rows[r]],
    att |-> {a \in attempts : a.download_id # id},
    rowcount |-> 1 ]

\* repository.py delete_download, the DELETE statement; attempt rows cascade
delete_row(id) ==
  [ tbl |-> [r \in (DOMAIN rows) \ {id} |-> rows[r]],
    att |-> {a \in attempts : a.download_id # id},
    rowcount |-> IF Exists(id) THEN 1 ELSE 0 ]

\* ------------------------------------------------------------ processes

IdleWorker ==
  [ pc |-> "idle", url |-> "", attempt_no |-> 0, attempt_max |-> 0,
    attempt_id |-> 0, message |-> <<>>, exception_type |-> "null",
    last_flush |-> 0, stamp |-> 0, pend |-> <<>> ]

NoRequest == [ op |-> "none", pc |-> "none" ]
NoRecord == [ media_local_path |-> << >>, thumbnail_local_path |-> << >> ]
NoStart == [ pc |-> "none", job_id |-> 0 ]

\* request-handling threads that may work on the same job at the same time
Callers == {1, 2}

\* progress dicts the extractor may pass to the hook; 0 stands for a key
\* that is absent, None or 0 (all of them falsy for `or`)
ProgressEvents ==
  [ status : {"downloading", "finished", "error"},
    downloaded_bytes : 0..MaxBytes,
    total_bytes : 0..MaxBytes,
    total_bytes_estimate : {0, 1},
    speed : {0, 250},
    eta : {Null, 2} ]

\* the events of one plain download of one byte
PlainEvents ==
  { e \in ProgressEvents :
      /\ e.downloaded_bytes = 1 /\ e.total_bytes = 1 /\ e.total_bytes_estimate = 0
      /\ e.speed = 0 /\ e.eta = Null }

\* what the extractor may raise: DownloadError or another exception type
Errors == [ exception_type : {"DownloadError", "ValueError"}, message : Messages ]

\* one retryable download error and one other failure
PlainErrors ==
  { [ exception_type |-> "DownloadError", message |-> <<"HTTP", "Error", "403", "Forbidden">> ],
    [ exception_type |-> "ValueError", message |-> <<"Video", "unavailable">> ] }

\* queue_manager.py line 62: max(0.1, progress_flush_interval_ms / 1000.0),
\* in milliseconds, and the settings it is computed from
progress_flush_interval_s(progress_flush_interval_ms) ==
  IF progress_flush_interval_ms > 100 THEN progress_flush_interval_ms ELSE 100

FlushSettings == {0, 1, 99, 100, 101, 750}

\* progress_flush_interval_s, and time.monotonic() read off the same clock
FlushInterval == 1
Monotonic == clock + FlushInterval

\* the state after construction with a pool of n workers and an empty store
Constructed(n) ==
  /\ max_concurrent_downloads = n
  /\ rows = << >>
  /\ attempts = {}
  /\ lastAttempt = 0
  /\ nextId = 0
  /\ clock = 0
  /\ active = {}
  /\ cancel = [j \in JobIds |-> FALSE]
  /\ worker = [j \in JobIds |-> IdleWorker]
  /\ sched = << >>
  /\ ctl = [c \in Callers |-> [j \in JobIds |-> NoRequest]]
  /\ files = InitialFiles
  /\ record = [c \in Callers |-> [j \in JobIds |-> NoRecord]]
  /\ starting = NoStart

Init == Constructed(1)

Tick ==
  /\ clock < MaxClock
  /\ clock' = clock + 1
  /\ UNCHANGED << rows, attempts, lastAttempt, nextId, active, cancel,
                  worker, sched, ctl,
                  max_concurrent_downloads, files, record, starting >>

\* `with self._active_lock:` is entered only while no thread holds the lock;
\* the request threads and the done-callback hold it for one statement, the
\* scheduler holds it for the whole body of _try_start_job
LockFree == starting.pc = "none"

\* control plane enqueue: a fresh id, then repository.py create_download
Enqueue(url) ==
  /\ nextId < Cardinality(JobIds)
  /\ nextId' = nextId + 1
  /\ rows' = create_download(nextId + 1, url, clock)
  /\ UNCHANGED << attempts, lastAttempt, clock, active, cancel, worker,
                  sched, ctl,
                  max_concurrent_downloads, files, record, starting >>

\* every iteration fetches a full pool of ids, whatever is running
RunOnce_ignores_active ==
  /\ sched = << >>
  /\ LockFree
  /\ \E s \in QueuedOrders(max_concurrent_downloads) :
       /\ s # << >>
       /\ sched' = s
  /\ UNCHANGED << rows, attempts, lastAttempt, nextId, clock, active, cancel,
                  worker, ctl, max_concurrent_downloads, files, record, starting >>

\* queue_manager.py run_once: available slots, then get_queued_ids(limit)
RunOnce ==
  /\ sched = << >>
  /\ LockFree
  /\ max_concurrent_downloads - Cardinality(active) > 0
  /\ \E s \in QueuedOrders(max_concurrent_downloads - Cardinality(active)) :
       /\ s # << >>
       /\ sched' = s
  /\ UNCHANGED << rows, attempts, lastAttempt, nextId, clock, active, cancel,
                  worker, ctl,
                  max_concurrent_downloads, files, record, starting >>

\* the fetched id is submitted without a look at the active map
TryStartJob_without_check ==
  /\ sched # << >>
  /\ LockFree
  /\ lastAttempt < MaxAttemptRows
  /\ sched' = Tail(sched)
  /\ LET job_id == Head(sched) IN
       /\ active' = active \cup {job_id}
       /\ cancel' = [cancel EXCEPT ![job_id] = FALSE]
       /\ worker' = [worker EXCEPT ![job_id] = [IdleWorker EXCEPT !.pc = "start"]]
  /\ UNCHANGED << rows, attempts, lastAttempt, nextId, clock, ctl,
                  max_concurrent_downloads, files, record, starting >>

\* queue_manager.py _try_start_job for the next fetched id, when the
\* submitted run is still executing at the time its callback is registered
TryStartJob ==
  /\ sched # << >>
  /\ LockFree
  /\ lastAttempt < MaxAttemptRows
  /\ sched' = Tail(sched)
  /\ LET job_id == Head(sched) IN
       IF job_id \in active
         THEN UNCHANGED << active, cancel, worker >>
         ELSE /\ active' = active \cup {job_id}
              /\ cancel' = [cancel EXCEPT ![job_id] = FALSE]
              /\ worker' = [worker EXCEPT ![job_id] = [IdleWorker EXCEPT !.pc = "start"]]
  /\ UNCHANGED << rows, attempts, lastAttempt, nextId, clock, ctl,
                  max_concurrent_downloads, files, record, starting >>

\* queue_manager.py _try_start_job statement by statement.  Lines 119-123:
\* the lock is taken, the id is looked up and the run is submitted to the pool
TryStartSubmit ==
  /\ sched # << >>
  /\ LockFree
  /\ lastAttempt < MaxAttemptRows
  /\ sched' = Tail(sched)
  /\ LET job_id == Head(sched) IN
       IF job_id \in active
         THEN UNCHANGED << cancel, worker, starting >>
         ELSE /\ cancel' = [cancel EXCEPT ![job_id] = FALSE]
              /\ worker' = [worker EXCEPT ![job_id] = [IdleWorker EXCEPT !.pc = "start"]]
              /\ starting' = [pc |-> "submitted", job_id |-> job_id]
  /\ UNCHANGED << rows, attempts, lastAttempt, nextId, clock, active, ctl,
                  max_concurrent_downloads, files, record >>

\* line 124: future.add_done_callback.  A future that is already done calls
\* the callback at once in the calling thread: _on_future_done enters
\* `with self._active_lock` (a threading.Lock, line 66) while _try_start_job
\* holds it, and the scheduler thread waits for itself
TryStartAddDoneCallback ==
  /\ starting.pc = "submitted"
  /\ starting' = [starting EXCEPT !.pc =
                    IF worker[starting.job_id].pc \in {"returned", "raised"}
                      THEN "blocked" ELSE "registered"]
  /\ UNCHANGED << rows, attempts, lastAttempt, nextId, clock, active, cancel,
                  worker, sched, ctl, max_concurrent_downloads, files, record >>

\* lines 125-130: the handle is stored, the lock is released, return True
TryStartAssign ==
  /\ starting.pc = "registered"
  /\ active' = active \cup {starting.job_id}
  /\ starting' = NoStart
  /\ UNCHANGED << rows, attempts, lastAttempt, nextId, clock, cancel, worker,
                  sched, ctl, max_concurrent_downloads, files, record >>

\* the callback leaves the handle of the finished run in the active map
OnFutureDone_keeps_handle(j) ==
  /\ worker[j].pc \in {"returned", "raised"}
  /\ LockFree
  /\ worker' = [worker EXCEPT ![j] = IdleWorker]
  /\ UNCHANGED << rows, attempts, lastAttempt, nextId, clock, active, cancel,
                  sched, ctl, max_concurrent_downloads, files, record, starting >>

\* queue_manager.py _on_future_done: the run is over, its handle is dropped
OnFutureDone(j) ==
  /\ worker[j].pc \in {"returned", "raised"}
  /\ LockFree
  /\ worker' = [worker EXCEPT ![j] = IdleWorker]
  /\ active' = active \ {j}
  /\ UNCHANGED << rows, attempts, lastAttempt, nextId, clock, cancel, sched, ctl,
                  max_concurrent_downloads, files, record, starting >>

\* --------------------------------------------------------------- worker
\* queue_manager.py _worker, one action per store call or decision

WorkerFrame == << nextId, clock, active, cancel, sched, ctl,
                 max_concurrent_downloads, files, record, starting >>

Goto(j, pc) == worker' = [worker EXCEPT ![j].pc = pc]

\* lines 138-155: get_download, empty-url check, the attempt plan, and the
\* first test of cancel_event
WorkerStart(j) ==
  /\ worker[j].pc = "start"
  /\ IF ~Exists(j) \/ rows[j].url = ""
       THEN Goto(j, "returned")
       ELSE worker' = [worker EXCEPT ![j].pc = IF cancel[j] THEN "pause_top" ELSE "begin",
                                     ![j].url = rows[j].url,
                                     ![j].attempt_no = 1,
                                     ![j].attempt_max = Len(AttemptPlan(rows[j].url))]
  /\ UNCHANGED << rows, attempts, lastAttempt >>
  /\ UNCHANGED WorkerFrame

Profile(j) == AttemptPlan(worker[j].url)[worker[j].attempt_no]

\* lines 156-159: set_paused and return
WorkerPauseTop(j) ==
  /\ worker[j].pc = "pause_top"
  /\ rows' = set_paused(j, clock).tbl
  /\ Goto(j, "returned")
  /\ UNCHANGED << attempts, lastAttempt >>
  /\ UNCHANGED WorkerFrame

\* the run goes on whatever set_downloading returns
WorkerBegin_ignores_result(j) ==
  /\ worker[j].pc = "begin"
  /\ LET res == set_downloading(j, worker[j].attempt_no, worker[j].attempt_max,
                                Profile(j), clock) IN
       /\ rows' = res.tbl
       /\ Goto(j, "create_attempt")
  /\ UNCHANGED << attempts, lastAttempt >>
  /\ UNCHANGED WorkerFrame

\* lines 161-165: set_downloading; when it does not apply the run reads the
\* row for its duration metric and returns
WorkerBegin(j) ==
  /\ worker[j].pc = "begin"
  /\ LET res == set_downloading(j, worker[j].attempt_no, worker[j].attempt_max,
                                Profile(j), clock) IN
       /\ rows' = res.tbl
       /\ Goto(j, IF res.rowcount > 0 THEN "create_attempt" ELSE "returned")
  /\ UNCHANGED << attempts, lastAttempt >>
  /\ UNCHANGED WorkerFrame

\* line 168: create_attempt, outside the try block
WorkerCreateAttempt(j) ==
  /\ worker[j].pc = "create_attempt"
  /\ LET res == create_attempt(j, worker[j].attempt_no, Profile(j), clock) IN
       /\ attempts' = res.tbl
       /\ lastAttempt' = res.lastrowid
       /\ worker' = [worker EXCEPT
                       ![j].pc = IF res.raised THEN "raised" ELSE "extract",
                       ![j].attempt_id = res.lastrowid,
                       ![j].last_flush = 0]
  /\ UNCHANGED rows
  /\ UNCHANGED WorkerFrame

\* every downloading event is written
ProgressHook_without_rate_limit(j, progress) ==
  /\ worker[j].pc = "extract"
  /\ LET downloaded == progress.downloaded_bytes
         total_raw == IF progress.total_bytes # 0 THEN progress.total_bytes
                      ELSE progress.total_bytes_estimate
         total == IF total_raw # 0 THEN total_raw ELSE Null
         speed == IF progress.speed # 0 THEN progress.speed ELSE Null
         eta == progress.eta
     IN
       IF cancel[j]
         THEN Goto(j, "pause_requested")
       ELSE IF progress.status \notin {"downloading", "finished"}
         THEN UNCHANGED worker
       ELSE IF progress.status = "finished"
         THEN worker' = [worker EXCEPT
                ![j].pc = "update_progress",
                ![j].stamp = clock,
                ![j].pend = << 10000, downloaded,
                               IF total # Null THEN total ELSE downloaded, Null, 0 >>]
       ELSE worker' = [worker EXCEPT
                ![j].pc = "update_progress",
                ![j].stamp = clock,
                ![j].last_flush = Monotonic,
                ![j].pend = << IF total # Null /\ total > 0
                                 THEN Percent(downloaded, total) ELSE Null,
                               downloaded, total, speed, eta >>]
  /\ UNCHANGED << rows, attempts, lastAttempt >>
  /\ UNCHANGED WorkerFrame

\* a finished event is written before the cancel signal is looked at
ProgressHook_finished_before_cancel(j, progress) ==
  /\ worker[j].pc = "extract"
  /\ LET downloaded == progress.downloaded_bytes
         total_raw == IF progress.total_bytes # 0 THEN progress.total_bytes
                      ELSE progress.total_bytes_estimate
         total == IF total_raw # 0 THEN total_raw ELSE Null
         speed == IF progress.speed # 0 THEN progress.speed ELSE Null
         eta == progress.eta
     IN
       IF progress.status = "finished"
         THEN worker' = [worker EXCEPT
                ![j].pc = "update_progress",
                ![j].stamp = clock,
                ![j].pend = << 10000, downloaded,
                               IF total # Null THEN total ELSE downloaded, Null, 0 >>]
       ELSE IF cancel[j]
         THEN Goto(j, "pause_requested")
       ELSE IF progress.status \notin {"downloading", "finished"}
         THEN UNCHANGED worker
       ELSE IF Monotonic - worker[j].last_flush < FlushInterval
         THEN UNCHANGED worker
       ELSE worker' = [worker EXCEPT
                ![j].pc = "update_progress",
                ![j].stamp = clock,
                ![j].last_flush = Monotonic,
                ![j].pend = << IF total # Null /\ total > 0
                                 THEN Percent(downloaded, total) ELSE Null,
                               downloaded, total, speed, eta >>]
  /\ UNCHANGED << rows, attempts, lastAttempt >>
  /\ UNCHANGED WorkerFrame

\* a finished event is handled like a downloading one
ProgressHook_without_finished_branch(j, progress) ==
  /\ worker[j].pc = "extract"
  /\ LET downloaded == progress.downloaded_bytes
         total_raw == IF progress.total_bytes # 0 THEN progress.total_bytes
                      ELSE progress.total_bytes_estimate
         total == IF total_raw # 0 THEN total_raw ELSE Null
         speed == IF progress.speed # 0 THEN progress.speed ELSE Null
         eta == progress.eta
     IN
       IF cancel[j]
         THEN Goto(j, "pause_requested")
       ELSE IF progress.status \notin {"downloading", "finished"}
         THEN UNCHANGED worker
       ELSE IF Monotonic - worker[j].last_flush < FlushInterval
         THEN UNCHANGED worker
       ELSE worker' = [worker EXCEPT
                ![j].pc = "update_progress",
                ![j].stamp = clock,
                ![j].last_flush = Monotonic,
                ![j].pend = << IF total # Null /\ total > 0
                                 THEN Percent(downloaded, total) ELSE Null,
                               downloaded, total, speed, eta >>]
  /\ UNCHANGED << rows, attempts, lastAttempt >>
  /\ UNCHANGED WorkerFrame

\* lines 361-395: progress_hook up to the call of update_progress, whose
\* arguments (utc_now_iso() among them) are evaluated before the statement runs
ProgressHook(j, progress) ==
  /\ worker[j].pc = "extract"
  /\ LET downloaded == progress.downloaded_bytes
         total_raw == IF progress.total_bytes # 0 THEN progress.total_bytes
                      ELSE progress.total_bytes_estimate
         total == IF total_raw # 0 THEN total_raw ELSE Null
         speed == IF progress.speed # 0 THEN progress.speed ELSE Null
         eta == progress.eta
     IN
       IF cancel[j]
         THEN Goto(j, "pause_requested")
       ELSE IF progress.status \notin {"downloading", "finished"}
         THEN UNCHANGED worker
       ELSE IF progress.status = "finished"
         THEN worker' = [worker EXCEPT
                ![j].pc = "update_progress",
                ![j].stamp = clock,
                ![j].pend = << 10000, downloaded,
                               IF total # Null THEN total ELSE downloaded, Null, 0 >>]
       ELSE IF Monotonic - worker[j].last_flush < FlushInterval
         THEN UNCHANGED worker
       ELSE worker' = [worker EXCEPT
                ![j].pc = "update_progress",
                ![j].stamp = clock,
                ![j].last_flush = Monotonic,
                ![j].pend = << IF total # Null /\ total > 0
                                 THEN Percent(downloaded, total) ELSE Null,
                               downloaded, total, speed, eta >>]
  /\ UNCHANGED << rows, attempts, lastAttempt >>
  /\ UNCHANGED WorkerFrame

\* repository.py update_progress: the UPDATE statement commits
WorkerUpdateProgress(j) ==
  /\ worker[j].pc = "update_progress"
  /\ LET a == worker[j].pend IN
       rows' = update_progress(j, a[1], a[2], a[3], a[4], a[5], worker[j].stamp).tbl
  /\ worker' = [worker EXCEPT ![j].pc = "extract", ![j].pend = << >>, ![j].stamp = 0]
  /\ UNCHANGED << attempts, lastAttempt >>
  /\ UNCHANGED WorkerFrame

\* lines 171-181: the extractor returns and the paths are resolved
ExtractReturns(j) ==
  /\ worker[j].pc = "extract"
  /\ Goto(j, "finish_ok")
  /\ UNCHANGED << rows, attempts, lastAttempt >>
  /\ UNCHANGED WorkerFrame

\* lines 216, 240: the extractor (or path resolution) raises
ExtractRaises(j, exception_type, message) ==
  /\ worker[j].pc = "extract"
  /\ worker' = [worker EXCEPT ![j].pc = "finalize_failed",
                              ![j].exception_type = exception_type,
                              ![j].message = message]
  /\ UNCHANGED << rows, attempts, lastAttempt >>
  /\ UNCHANGED WorkerFrame

\* lines 182-190: set_completed on the info dict the extractor returned; an
\* exception of _to_json_string leaves set_completed before its UPDATE and is
\* caught by `except Exception` (line 240)
WorkerFinishOk(j, info) ==
  /\ worker[j].pc = "finish_ok"
  /\ LET metadata_json == _to_json_string(info) IN
       IF metadata_json.raised # "null"
         THEN /\ worker' = [worker EXCEPT ![j].pc = "finalize_failed",
                                          ![j].exception_type = metadata_json.raised,
                                          ![j].message = metadata_json.message]
              /\ UNCHANGED rows
         ELSE /\ rows' = set_completed(j, Profile(j), worker[j].attempt_no,
                                       worker[j].attempt_max, metadata_json.text,
                                       _resolve_media_path, _resolve_thumbnail_path,
                                       clock).tbl
              /\ Goto(j, "finalize_completed")
  /\ UNCHANGED << attempts, lastAttempt >>
  /\ UNCHANGED WorkerFrame

\* lines 191-203: finalize_attempt(attempt_id, "completed") and return
WorkerFinalizeCompleted(j) ==
  /\ worker[j].pc = "finalize_completed"
  /\ attempts' = finalize_attempt(worker[j].attempt_id, "completed", << >>, "null", clock)
  /\ Goto(j, "returned")
  /\ UNCHANGED << rows, lastAttempt >>
  /\ UNCHANGED WorkerFrame

\* lines 204-205: except PauseRequestedError: set_paused
WorkerPauseRequested(j) ==
  /\ worker[j].pc = "pause_requested"
  /\ rows' = set_paused(j, clock).tbl
  /\ Goto(j, "finalize_paused")
  /\ UNCHANGED << attempts, lastAttempt >>
  /\ UNCHANGED WorkerFrame

\* lines 206-215: finalize_attempt(attempt_id, "paused", ...) and return
WorkerFinalizePaused(j) ==
  /\ worker[j].pc = "finalize_paused"
  /\ attempts' = finalize_attempt(worker[j].attempt_id, "paused",
                                  <<"paused_by_user">>, "PauseRequestedError", clock)
  /\ Goto(j, "returned")
  /\ UNCHANGED << rows, lastAttempt >>
  /\ UNCHANGED WorkerFrame

\* the attempt is finalized only when the run does not go on
WorkerFinalizeFailed_not_before_continue(j) ==
  /\ worker[j].pc = "finalize_failed"
  /\ IF _is_retryable(worker[j].message, Profile(j), worker[j].attempt_no,
                      worker[j].attempt_max)
       THEN /\ worker' = [worker EXCEPT ![j].pc = IF cancel[j] THEN "pause_top" ELSE "begin",
                                        ![j].attempt_no = @ + 1]
            /\ UNCHANGED attempts
       ELSE /\ attempts' = finalize_attempt(worker[j].attempt_id, "failed", worker[j].message,
                                            worker[j].exception_type, clock)
            /\ Goto(j, "finish_fail")
  /\ UNCHANGED << rows, lastAttempt >>
  /\ UNCHANGED WorkerFrame

\* lines 217-225, 241-250: finalize_attempt(attempt_id, "failed", ...), then
\* continue with the next attempt (and its test of cancel_event) when _is_retryable
WorkerFinalizeFailed(j) ==
  /\ worker[j].pc = "finalize_failed"
  /\ attempts' = finalize_attempt(worker[j].attempt_id, "failed", worker[j].message,
                                  worker[j].exception_type, clock)
  /\ IF _is_retryable(worker[j].message, Profile(j), worker[j].attempt_no,
                      worker[j].attempt_max)
       THEN worker' = [worker EXCEPT ![j].pc = IF cancel[j] THEN "pause_top" ELSE "begin",
                                     ![j].attempt_no = @ + 1]
       ELSE Goto(j, "finish_fail")
  /\ UNCHANGED << rows, lastAttempt >>
  /\ UNCHANGED WorkerFrame

\* lines 226-239, 251-264: set_failed and return
WorkerFinishFail(j) ==
  /\ worker[j].pc = "finish_fail"
  /\ rows' = set_failed(j, worker[j].message, worker[j].exception_type, Profile(j),
                        worker[j].attempt_no, worker[j].attempt_max, clock).tbl
  /\ Goto(j, "returned")
  /\ UNCHANGED << attempts, lastAttempt >>
  /\ UNCHANGED WorkerFrame

\* -------------------------------------------------------- control plane

Known(j) == j \in 1..nextId

\* queue_manager.py pause_job, lines 267-269: pause_queued
PauseJob(c, j) ==
  /\ Known(j)
  /\ ctl[c][j].op = "none"
  /\ LET res == pause_queued(j, clock) IN
       /\ rows' = res.tbl
       /\ ctl' = [ctl EXCEPT ![c][j] = IF res.rowcount > 0 THEN NoRequest
                                    ELSE [op |-> "pause", pc |-> "lookup"]]
  /\ UNCHANGED << attempts, lastAttempt, nextId, clock, active, cancel, worker,
                  sched,
                  max_concurrent_downloads, files, record, starting >>

\* a request on a job without a handle goes on to the forced pause
PauseSignal_without_return(c, j) ==
  /\ ctl[c][j].op = "pause" /\ ctl[c][j].pc = "lookup"
  /\ LockFree
  /\ cancel' = [cancel EXCEPT ![j] = IF j \in active THEN TRUE ELSE @]
  /\ ctl' = [ctl EXCEPT ![c][j] = [@ EXCEPT !.pc = "write"]]
  /\ UNCHANGED << rows, attempts, lastAttempt, nextId, clock, active, worker,
                  sched, max_concurrent_downloads, files, record, starting >>

\* lines 271-278: handle = self._active.get(job_id); cancel_event.set()
PauseSignal(c, j) ==
  /\ ctl[c][j].op = "pause" /\ ctl[c][j].pc = "lookup"
  /\ LockFree
  /\ cancel' = [cancel EXCEPT ![j] = IF j \in active THEN TRUE ELSE @]
  /\ ctl' = [ctl EXCEPT ![c][j] = IF j \in active THEN [@ EXCEPT !.pc = "write"]
                                  ELSE NoRequest]
  /\ UNCHANGED << rows, attempts, lastAttempt, nextId, clock, active, worker,
                  sched,
                  max_concurrent_downloads, files, record, starting >>

\* lines 279-282: set_paused
PauseWrite(c, j) ==
  /\ ctl[c][j].op = "pause" /\ ctl[c][j].pc = "write"
  /\ rows' = set_paused(j, clock).tbl
  /\ ctl' = [ctl EXCEPT ![c][j] = NoRequest]
  /\ UNCHANGED << attempts, lastAttempt, nextId, clock, active, cancel, worker,
                  sched,
                  max_concurrent_downloads, files, record, starting >>

\* the three returns of pause_job: line 269 (True, "paused"), line 274
\* (False, "job_not_active_or_not_queued") and line 282 (True, "pause_requested")
PauseReturnsPaused(c, j) == PauseJob(c, j) /\ ctl'[c][j] = NoRequest
PauseReturnsNotActive(c, j) == PauseSignal(c, j) /\ ctl'[c][j] = NoRequest
PauseReturnsRequested(c, j) == PauseWrite(c, j) /\ ctl'[c][j] = NoRequest

\* what resume_job and retry_job return
resume_job(j) ==
  IF resume_paused(j, clock).rowcount > 0 THEN <<TRUE, "queued">>
                                          ELSE <<FALSE, "invalid_state">>

retry_job(j) ==
  IF retry_download(j, clock).rowcount > 0 THEN <<TRUE, "queued">>
                                           ELSE <<FALSE, "invalid_state">>

\* queue_manager.py resume_job: resume_paused
ResumeJob(j) ==
  /\ Known(j)
  /\ rows' = resume_paused(j, clock).tbl
  /\ UNCHANGED << attempts, lastAttempt, nextId, clock, active, cancel, worker,
                  sched, ctl,
                  max_concurrent_downloads, files, record, starting >>

\* queue_manager.py retry_job: retry_download
RetryJob(j) ==
  /\ Known(j)
  /\ Exists(j) => rows[j].attempt_max < MaxAttemptMax
  /\ rows' = retry_download(j, clock).tbl
  /\ UNCHANGED << attempts, lastAttempt, nextId, clock, active, cancel, worker,
                  sched, ctl,
                  max_concurrent_downloads, files, record, starting >>

\* queue_manager.py delete_job, lines 298-301: signal the active run
DeleteJob(c, j) ==
  /\ Known(j)
  /\ ctl[c][j].op = "none"
  /\ LockFree
  /\ cancel' = [cancel EXCEPT ![j] = IF j \in active THEN TRUE ELSE @]
  /\ ctl' = [ctl EXCEPT ![c][j] = [op |-> "delete", pc |-> "read"]]
  /\ UNCHANGED << rows, attempts, lastAttempt, nextId, clock, active, worker,
                  sched,
                  max_concurrent_downloads, files, record, starting >>

\* repository.py delete_download, lines 407-409: record = get_download; without
\* a record the call returns (False, None).  At "exec" the call holds the record
\* it read; its columns serve the file cleanup and are not followed here
DeleteRead(c, j) ==
  /\ ctl[c][j].op = "delete" /\ ctl[c][j].pc = "read"
  /\ ctl' = [ctl EXCEPT ![c][j] = IF Exists(j) THEN [@ EXCEPT !.pc = "exec"]
                                     ELSE NoRequest]
  /\ record' = [record EXCEPT ![c][j] =
                  IF Exists(j)
                    THEN [ media_local_path |-> rows[j].media_local_path,
                           thumbnail_local_path |-> rows[j].thumbnail_local_path ]
                    ELSE NoRecord]
  /\ UNCHANGED << rows, attempts, lastAttempt, nextId, clock, active, cancel,
                  worker, sched,
                  max_concurrent_downloads, files, starting >>

\* repository.py delete_download, line 410: DELETE FROM downloads WHERE id = ?
\* and, when it removed the row, queue_manager.py line 307: the cleanup of the
\* files the record names (nothing else reads or writes the files)
DeleteExec(c, j) ==
  /\ ctl[c][j].op = "delete" /\ ctl[c][j].pc = "exec"
  /\ LET res == delete_row(j) IN
       /\ rows' = res.tbl
       /\ attempts' = res.att
       /\ files' = IF res.rowcount > 0
                     THEN _delete_local_files(record[c][j].media_local_path,
                                              record[c][j].thumbnail_local_path)
                     ELSE files
  /\ ctl' = [ctl EXCEPT ![c][j] = NoRequest]
  /\ record' = [record EXCEPT ![c][j] = NoRecord]
  /\ UNCHANGED << lastAttempt, nextId, clock, active, cancel, worker, sched,
                  max_concurrent_downloads, starting >>

\* the returns of delete_job: (False, "not_found") when delete_download found
\* no record or its DELETE removed no row, (True, "deleted") otherwise
DeleteReturnsNotFound(c, j) ==
  \/ DeleteRead(c, j) /\ ~Exists(j)
  \/ DeleteExec(c, j) /\ delete_row(j).rowcount = 0

DeleteReturnsDeleted(c, j) ==
  DeleteExec(c, j) /\ delete_row(j).rowcount > 0

\* repository.py update_fields(id, media_local_path=..., thumbnail_local_path=...):
\* UPDATE downloads SET ... WHERE id = ?
UpdateFields(j, media_local_path, thumbnail_local_path) ==
  /\ Known(j)
  /\ rows' = UpdateWhere(j, TRUE,
                [rows[j] EXCEPT !.media_local_path = media_local_path,
                                !.thumbnail_local_path = thumbnail_local_path,
                                !.updated_at = clock]).tbl
  /\ UNCHANGED << attempts, lastAttempt, nextId, clock, active, cancel, worker,
                  sched, ctl, max_concurrent_downloads, files, record, starting >>

\* ---------------------------------------------- the file routes of main.py

\* os.path.exists(path): a file or a directory is at the real location
exists(path) ==
  LET at == realpath(path) IN
    \/ at \in files
    \/ \E f \in InitialFiles : Len(at) < Len(f) /\ SubSeq(f, 1, Len(at)) = at

\* main.py delete_video: the response status and the files left on disk.
\* os.path.commonpath compares the components as written, os.path.exists and
\* os.remove act on the real location; removing a directory raises
delete_video(filename) ==
  LET full_path == join(base_download_dir, filename)
      base_name == splitext(filename)
      sidecars == { realpath(join(base_download_dir, base_name \o <<ext>>)) :
                      ext \in {".info.json", ".jpg", ".webp"} }
  IN IF filename = << >>
       THEN [status |-> 400, files |-> files]
     ELSE IF commonpath(Components(full_path), Components(base_download_dir))
               # Components(base_download_dir)
       THEN [status |-> 403, files |-> files]
     ELSE IF ~exists(full_path)
       THEN [status |-> 404, files |-> files]
     ELSE IF realpath(full_path) \notin files
       THEN [status |-> 500, files |-> files]
     ELSE [status |-> 200, files |-> (files \ {realpath(full_path)}) \ sidecars]

\* POST /delete with the form field filename
DeleteVideo(filename) ==
  /\ files' = delete_video(filename).files
  /\ UNCHANGED << rows, attempts, lastAttempt, nextId, clock, active, cancel,
                  worker, sched, ctl, max_concurrent_downloads, record, starting >>

\* a process restart: every thread and the active map are gone, then
\* recover_interrupted_downloads runs before the scheduler starts
Restart ==
  /\ rows' = recover_interrupted_downloads(clock).tbl
  /\ active' = {}
  /\ cancel' = [j \in JobIds |-> FALSE]
  /\ worker' = [j \in JobIds |-> IdleWorker]
  /\ sched' = << >>
  /\ ctl' = [c \in Callers |-> [j \in JobIds |-> NoRequest]]
  /\ record' = [c \in Callers |-> [j \in JobIds |-> NoRecord]]
  /\ starting' = NoStart
  /\ UNCHANGED << attempts, lastAttempt, nextId, clock,
                  max_concurrent_downloads, files >>

\* the steps of a run whose cancel signal is not set
WorkerRun(j, events, errors) ==
  \/ WorkerStart(j)
  \/ WorkerBegin(j)
  \/ WorkerCreateAttempt(j)
  \/ \E progress \in events : ProgressHook(j, progress)
  \/ WorkerUpdateProgress(j)
  \/ ExtractReturns(j)
  \/ \E e \in errors : ExtractRaises(j, e.exception_type, e.message)
  \/ \E info \in PlainInfos : WorkerFinishOk(j, info)
  \/ WorkerFinalizeCompleted(j)
  \/ WorkerFinalizeFailed(j)
  \/ WorkerFinishFail(j)

\* the steps a run takes once it has seen its cancel signal
WorkerUnwind(j) ==
  \/ WorkerPauseTop(j)
  \/ WorkerPauseRequested(j)
  \/ WorkerFinalizePaused(j)

\* scheduler and pool, with up to `jobs` jobs enqueued from `urls`
Dispatch(jobs, urls) ==
  \/ \E url \in urls : nextId < jobs /\ Enqueue(url)
  \/ RunOnce
  \/ TryStartJob
  \/ \E j \in JobIds : OnFutureDone(j)

\* the steps of the pause requests of caller c
Pause(c) ==
  \/ \E j \in JobIds : PauseJob(c, j)
  \/ \E j \in JobIds : PauseSignal(c, j)
  \/ \E j \in JobIds : PauseWrite(c, j)

\* the steps of the delete requests of caller c
Delete(c) ==
  \/ \E j \in JobIds : DeleteJob(c, j)
  \/ \E j \in JobIds : DeleteRead(c, j)
  \/ \E j \in JobIds : DeleteExec(c, j)

\* the job lifecycle under every control-plane operation, at one reading of
\* the clock (every timestamp written is the same instant)
Next ==
  \/ Dispatch(1, Urls)
  \/ \E j \in JobIds : WorkerRun(j, PlainEvents, PlainErrors)
  \/ \E j \in JobIds : WorkerUnwind(j)
  \/ Pause(1)
  \/ \E j \in JobIds : ResumeJob(j)
  \/ \E j \in JobIds : RetryJob(j)
  \/ Delete(1)
  \/ Restart

Spec == Init /\ [][Next]_vars

\* a worker run left alone by the control plane, under every progress event
\* and with the clock running
NextWorker ==
  \/ Tick
  \/ Dispatch(1, Urls)
  \/ \E j \in JobIds : WorkerRun(j, ProgressEvents, Errors)

SpecWorker == Init /\ [][NextWorker]_vars

\* a worker run and pause requests, with the clock running
NextClock ==
  \/ Tick
  \/ Dispatch(1, Urls)
  \/ \E j \in JobIds : WorkerRun(j, PlainEvents, PlainErrors)
  \/ \E j \in JobIds : WorkerUnwind(j)
  \/ Pause(1)

SpecClock == Init /\ [][NextClock]_vars

\* the scheduler over a pool of two workers and three jobs whose runs are
\* left alone by the control plane, at one reading of the clock
NextSched ==
  \/ Dispatch(3, {"example.com"})
  \/ \E j \in JobIds : WorkerRun(j, PlainEvents, PlainErrors)

SpecSched == Constructed(2) /\ [][NextSched]_vars

\* one job that is paused, resumed and retried under a pool of two workers,
\* so that the scheduler can fetch the job while its run is still active
NextRequeue ==
  \/ Dispatch(1, {"example.com"})
  \/ \E j \in JobIds : WorkerRun(j, PlainEvents, PlainErrors)
  \/ \E j \in JobIds : WorkerUnwind(j)
  \/ Pause(1)
  \/ \E j \in JobIds : ResumeJob(j)
  \/ \E j \in JobIds : RetryJob(j)

SpecRequeue == Constructed(2) /\ [][NextRequeue]_vars

\* the steps of a run whose extractor raises before its first progress event
WorkerFails(j, errors) ==
  \/ WorkerStart(j)
  \/ WorkerBegin(j)
  \/ WorkerCreateAttempt(j)
  \/ \E e \in errors : ExtractRaises(j, e.exception_type, e.message)
  \/ WorkerFinalizeFailed(j)
  \/ WorkerFinishFail(j)

\* two jobs enqueued at any readings of the clock under a pool of two
\* workers; their downloads fail for good and are retried
NextFifo ==
  \/ Tick
  \/ Dispatch(2, {"example.com"})
  \/ \E j \in JobIds :
       WorkerFails(j, {e \in PlainErrors : e.exception_type = "ValueError"})
  \/ \E j \in JobIds : RetryJob(j)

SpecFifo == Constructed(2) /\ [][NextFifo]_vars

\* one job under pause requests and two request threads that delete it
NextDelete ==
  \/ Dispatch(1, {"example.com"})
  \/ \E j \in JobIds : WorkerRun(j, PlainEvents, PlainErrors)
  \/ \E j \in JobIds : WorkerUnwind(j)
  \/ Pause(1)
  \/ \E c \in Callers : Delete(c)

SpecDelete == Init /\ [][NextDelete]_vars

\* two jobs under a pool of two workers and process restarts, with the clock
\* running, so that a restart finds rows in different statuses
NextRecover ==
  \/ Tick
  \/ Dispatch(2, {"example.com"})
  \/ \E j \in JobIds : WorkerRun(j, PlainEvents, PlainErrors)
  \/ Restart

SpecRecover == Constructed(2) /\ [][NextRecover]_vars

\* the steps of a run whose extractor reports progress and returns
WorkerDownloads(j, events, infos) ==
  \/ WorkerStart(j)
  \/ WorkerBegin(j)
  \/ WorkerCreateAttempt(j)
  \/ \E progress \in events : ProgressHook(j, progress)
  \/ WorkerUpdateProgress(j)
  \/ ExtractReturns(j)
  \/ \E info \in infos : WorkerFinishOk(j, info)
  \/ WorkerFinalizeCompleted(j)

\* the progress events of a download whose speed and eta are known
TimedEvents == { e \in ProgressEvents : e.speed = 250 /\ e.eta = 2 }

\* one download left alone by the control plane, under every byte count its
\* progress events may report and with the clock running
NextProgress ==
  \/ Tick
  \/ Dispatch(1, {"example.com"})
  \/ \E j \in JobIds : WorkerDownloads(j, TimedEvents, PlainInfos)

SpecProgress == Init /\ [][NextProgress]_vars

\* one download under every info dict the extractor may return, with the
\* clock running
NextMetadata ==
  \/ Tick
  \/ Dispatch(1, Urls)
  \/ \E j \in JobIds : WorkerDownloads(j, PlainEvents, Infos)
  \/ \E j \in JobIds : WorkerFinalizeFailed(j)
  \/ \E j \in JobIds : WorkerFinishFail(j)

SpecMetadata == Init /\ [][NextMetadata]_vars

\* the file names a POST /delete may carry
Filenames ==
  StoredPaths \cup
  { << >>, <<"c", ".mp4">>, <<"a", ".info.json">>, <<"a", ".webp">>, <<"a", ".png">>,
    <<"b", ".mp4">>, <<"b", ".jpg">>,
    <<"..", "/", "etc", "/", "passwd", ".jpg">> }

\* the single-file application of main.py under delete requests, with the
\* clock running
NextLegacy ==
  \/ Tick
  \/ \E filename \in Filenames : DeleteVideo(filename)

SpecLegacy == Init /\ [][NextLegacy]_vars

\* one job whose path columns are set to any stored value and that is then
\* deleted
NextCleanup ==
  \/ \E url \in {"example.com"} : nextId < 1 /\ Enqueue(url)
  \/ \E j \in JobIds, media_local_path, thumbnail_local_path \in StoredPaths \cup {<< >>} :
       UpdateFields(j, media_local_path, thumbnail_local_path)
  \/ Delete(1)

SpecCleanup == Init /\ [][NextCleanup]_vars

\* one job whose run may take a second attempt, under pause and delete
\* requests, at one reading of the clock
NextBegin ==
  \/ Dispatch(1, Urls)
  \/ \E j \in JobIds : WorkerRun(j, PlainEvents, PlainErrors)
  \/ \E j \in JobIds : WorkerUnwind(j)
  \/ Pause(1)
  \/ Delete(1)

SpecBegin == Init /\ [][NextBegin]_vars

\* one job whose run may take a second attempt, under pause, resume and
\* retry requests, at one reading of the clock
NextAttempts ==
  \/ Dispatch(1, Urls)
  \/ \E j \in JobIds : WorkerRun(j, PlainEvents, PlainErrors)
  \/ \E j \in JobIds : WorkerUnwind(j)
  \/ Pause(1)
  \/ \E j \in JobIds : ResumeJob(j)
  \/ \E j \in JobIds : RetryJob(j)

SpecAttempts == Init /\ [][NextAttempts]_vars

\* two jobs under a pool of one worker, left alone by the control plane: the
\* scheduler loop iterates for ever (line 92), the pool runs every submitted
\* task, every store call returns, and the extractor returns or raises in
\* the end
NextLive ==
  \/ Dispatch(2, Urls)
  \/ \E j \in JobIds : WorkerRun(j, PlainEvents, PlainErrors)

Fairness ==
  /\ WF_vars(RunOnce)
  /\ WF_vars(TryStartJob)
  /\ \A j \in JobIds :
       /\ WF_vars(OnFutureDone(j))
       /\ WF_vars(WorkerRun(j, PlainEvents, PlainErrors))
       /\ SF_vars(ExtractReturns(j) \/ \E e \in PlainErrors :
                                        ExtractRaises(j, e.exception_type, e.message))

SpecLive == Init /\ [][NextLive]_vars /\ Fairness

\* the scheduler with _try_start_job taken statement by statement
DispatchByStatement(jobs, urls) ==
  \/ \E url \in urls : nextId < jobs /\ Enqueue(url)
  \/ RunOnce
  \/ TryStartSubmit
  \/ TryStartAddDoneCallback
  \/ TryStartAssign
  \/ \E j \in JobIds : OnFutureDone(j)

\* one job whose submitted run interleaves with the statements of
\* _try_start_job, under delete requests, at one reading of the clock
NextStart ==
  \/ DispatchByStatement(1, Urls)
  \/ \E j \in JobIds : WorkerRun(j, PlainEvents, PlainErrors)
  \/ \E j \in JobIds : WorkerUnwind(j)
  \/ Delete(1)

SpecStart == Init /\ [][NextStart]_vars


InRun(j) == worker[j].pc \notin {"idle", "returned", "raised"}

\* a step of the worker run of job j (not its start, its end or a restart)
RunStep(j) == InRun(j) /\ worker'[j] # worker[j] /\ worker'[j].pc # "idle"

\* C1: finish_ok (set_completed) called on a row whose status is neither
\* downloading nor retrying leaves the row's status unchanged.
C1_FinishOkOnlyWhenRunning ==
  [][ \A j \in JobIds :
        ( /\ worker[j].pc = "finish_ok"
          /\ worker'[j].pc = "finalize_completed"
          /\ Exists(j)
          /\ rows[j].status \notin {"downloading", "retrying"} )
        => ( j \in DOMAIN rows' /\ rows'[j].status = rows[j].status ) ]_vars

\* C2: the begin of the second attempt, made after a retryable failure of the
\* primary attempt with the cancel signal unset and the row in status
\* downloading, applies: the row records attempt 2 under the fallback profile
\* and the run goes on to create the attempt.
C2_SecondBeginApplies ==
  [][ \A j \in JobIds :
        ( /\ worker[j].pc = "begin"
          /\ worker[j].attempt_no = 2
          /\ worker'[j].pc \in {"create_attempt", "returned"}
          /\ ~cancel[j]
          /\ Exists(j)
          /\ rows[j].status = "downloading" )
        => ( /\ worker'[j].pc = "create_attempt"
             /\ rows'[j].status = "downloading"
             /\ rows'[j].attempt_current = 2
             /\ rows'[j].runtime_profile = "fallback" ) ]_vars

\* C3: when a worker run on a job with a non-empty URL returns and no
\* control-plane operation ran, the row is completed, failed or paused.
C3_WorkerLeavesRestingStatus ==
  \A j \in JobIds :
    ( worker[j].pc = "returned" /\ Exists(j) /\ rows[j].url # "" )
    => rows[j].status \in {"completed", "failed", "paused"}

\* C4: once a pause request has set the cancel signal of an active run and the
\* row is paused, no step of that run moves the row out of paused.
C4_WorkerKeepsPaused ==
  [][ \A j \in JobIds :
        ( /\ RunStep(j)
          /\ cancel[j]
          /\ Exists(j)
          /\ rows[j].status = "paused" )
        => ( j \in DOMAIN rows' /\ rows'[j].status = "paused" ) ]_vars

\* C5: every store write of a run whose job row has been deleted is a no-op:
\* it changes neither table and raises no error.
C5_WritesAfterDeleteAreNoOps ==
  [][ \A j \in JobIds :
        ( RunStep(j) /\ Known(j) /\ ~Exists(j) )
        => ( /\ rows' = rows
             /\ attempts' = attempts
             /\ worker'[j].pc # "raised" ) ]_vars

\* C6: no exception propagates out of a worker run.
C6_WorkerNeverRaises ==
  \A j \in JobIds : worker[j].pc # "raised"

\* C7: a completed row has completed_at set and failed_at unset; a failed row
\* has failed_at set and completed_at unset.
C7_ExactlyOneEndStamp ==
  \A j \in DOMAIN rows :
    /\ rows[j].status = "completed" =>
         (rows[j].completed_at # Null /\ rows[j].failed_at = Null)
    /\ rows[j].status = "failed" =>
         (rows[j].failed_at # Null /\ rows[j].completed_at = Null)

\* C8: 0 <= attempt_current <= attempt_max for every job row, in every state.
C8_AttemptWithinMax ==
  \A j \in DOMAIN rows :
    0 <= rows[j].attempt_current /\ rows[j].attempt_current <= rows[j].attempt_max

\* C8 witness: a job whose plan had two attempts has been retried
C8_Witness ==
  \E j \in DOMAIN rows :
    /\ rows[j].status = "queued"
    /\ rows[j].attempt_current = 0
    /\ rows[j].attempt_max = 3

\* C9: every stored progress_percent is null or within [0, 100] and
\* downloaded_bytes is never negative.
C9_PercentInRange ==
  \A j \in DOMAIN rows :
    /\ rows[j].progress_percent = Null
         \/ (0 <= rows[j].progress_percent /\ rows[j].progress_percent <= 10000)
    /\ rows[j].downloaded_bytes >= 0

\* C10: the committed updated_at values of a job never decrease.
C10_UpdatedAtMonotonic ==
  [][ \A j \in JobIds :
        ( Exists(j) /\ j \in DOMAIN rows' )
        => rows'[j].updated_at >= rows[j].updated_at ]_vars

\* C11: in every reachable state every job row's status is one of queued,
\* downloading, retrying, completed, failed, paused.
C11_StatusEnumerated ==
  \A j \in DOMAIN rows :
    rows[j].status \in {"queued", "downloading", "retrying", "completed", "failed", "paused"}

\* C11 witness: a worker run has stored a failure
C11_Witness ==
  \E j \in DOMAIN rows :
    /\ rows[j].status = "failed"
    /\ rows[j].last_exception_type # "null"
    /\ worker[j].pc = "returned"

\* C12: with one scheduler task the active map never holds more than
\* max_concurrent_downloads entries.
C12_ActiveWithinPool ==
  Cardinality(active) <= max_concurrent_downloads

\* C12 witness: every worker of the pool is downloading while another job
\* waits in the queue
C12_Witness ==
  /\ Cardinality(active) = max_concurrent_downloads
  /\ \A j \in active : Exists(j) /\ rows[j].status = "downloading"
  /\ \E j \in DOMAIN rows : rows[j].status = "queued" /\ j \notin active

\* C13: a worker run of a job is started only while no run of that job is
\* executing, also when the job is queued again during its previous run.
C13_OneRunPerJob ==
  [][ \A j \in JobIds :
        ( worker'[j].pc = "start" /\ worker'[j] # worker[j] ) => ~InRun(j) ]_vars

\* C13 witness: the scheduler has fetched a job that was paused and queued
\* again while its signalled run is still executing
C13_Witness ==
  /\ sched # << >>
  /\ Head(sched) \in active
  /\ InRun(Head(sched))
  /\ cancel[Head(sched)]
  /\ Exists(Head(sched))
  /\ rows[Head(sched)].status = "queued"

\* job k has been handed to a worker at some time
Dispatched(k) == k \in active \/ \E a \in attempts : a.download_id = k

\* C14: over a whole run a job is never dispatched after a job that was
\* created later than it.
C14_DispatchInCreationOrder ==
  [][ \A j \in JobIds :
        ( j \notin active /\ j \in active' /\ Exists(j) )
        => \A k \in DOMAIN rows :
             Dispatched(k) => rows[k].created_at <= rows[j].created_at ]_vars

\* C14 (amended): within one scheduler iteration the fetched jobs come in
\* non-decreasing created_at order, no queued job left out by the limit was
\* created before a fetched one, and the jobs are started in the fetched order.
C14_FetchInCreationOrder ==
  [][ /\ ( sched = << >> /\ sched' # << >> ) =>
           /\ \A a, b \in 1..Len(sched') :
                a < b => rows[sched'[a]].created_at <= rows[sched'[b]].created_at
           /\ \A r \in DOMAIN rows :
                ( rows[r].status = "queued" /\ \A a \in 1..Len(sched') : sched'[a] # r )
                => \A a \in 1..Len(sched') :
                     rows[sched'[a]].created_at <= rows[r].created_at
      /\ \A j \in JobIds :
           ( j \notin active /\ j \in active' ) =>
             ( j = Head(sched) /\ sched' = Tail(sched) ) ]_vars

\* C14 witness: one fetch holds two jobs created at different times
C14_Witness ==
  /\ Len(sched) = 2
  /\ rows[sched[1]].created_at < rows[sched[2]].created_at

\* C15: pause on a job whose row is queued sets the row to paused with
\* paused_at set and returns success without setting a cancel signal, whether
\* or not the id is in the active map.
C15_PauseQueued ==
  [][ \A j \in JobIds :
        ( PauseJob(1, j) /\ Exists(j) /\ rows[j].status = "queued" )
        => ( /\ PauseReturnsPaused(1, j)
             /\ j \in DOMAIN rows'
             /\ rows'[j].status = "paused"
             /\ rows'[j].paused_at # Null
             /\ cancel' = cancel ) ]_vars

\* C15 witness: a queued job was paused after the scheduler had started its
\* run and before the run began
C15_Witness ==
  \E j \in DOMAIN rows :
    /\ rows[j].status = "paused"
    /\ rows[j].paused_at # Null
    /\ rows[j].attempt_current = 0
    /\ j \in active
    /\ worker[j].pc \in {"start", "begin"}
    /\ ~cancel[j]
    /\ ctl[1][j] = NoRequest

\* C16: pause on a job whose row is not queued and whose id is in the active
\* map sets the job's cancel signal, leaves the row paused when it returns,
\* and reports success.
C16_PauseActive ==
  [][ \A j \in JobIds :
        /\ ( PauseSignal(1, j) /\ j \in active )
            => ( cancel'[j] /\ ctl'[1][j] = [op |-> "pause", pc |-> "write"] )
        /\ ( PauseWrite(1, j) /\ Exists(j) )
            => ( /\ PauseReturnsRequested(1, j)
                 /\ cancel'[j] = cancel[j]
                 /\ j \in DOMAIN rows'
                 /\ rows'[j].status = "paused" ) ]_vars

\* C16 witness: the forced pause has returned on a job whose run has not
\* yet seen its signal
C16_Witness ==
  \E j \in DOMAIN rows :
    /\ j \in active
    /\ cancel[j]
    /\ worker[j].pc = "extract"
    /\ rows[j].status = "paused"
    /\ rows[j].error_message = <<"paused_by_user">>
    /\ ctl[1][j] = NoRequest

\* C17: pause on a job that is neither queued nor in the active map returns
\* job_not_active_or_not_queued and leaves the row and every cancel signal
\* unchanged.
C17_PauseRefused ==
  [][ \A j \in JobIds :
        /\ ( PauseJob(1, j) /\ ~(Exists(j) /\ rows[j].status = "queued") )
            => ( rows' = rows /\ cancel' = cancel )
        /\ ( PauseSignal(1, j) /\ j \notin active )
            => ( PauseReturnsNotActive(1, j) /\ rows' = rows /\ cancel' = cancel ) ]_vars

\* C17 witness: a pause request on a completed, failed or paused job finds
\* no handle
C17_Witness ==
  \E j \in DOMAIN rows :
    /\ ctl[1][j] = [op |-> "pause", pc |-> "lookup"]
    /\ j \notin active
    /\ rows[j].status \in {"completed", "failed", "paused"}

\* C18: resume applies exactly when the row is paused: it sets status queued
\* and clears paused_at, error_message, eta_seconds and speed_bps, leaving
\* progress and attempt counters unchanged; in every other status it returns
\* invalid_state and leaves the row unchanged.
C18_ResumeFrame ==
  [][ \A j \in JobIds :
        ( ResumeJob(j) /\ Exists(j) ) =>
          IF rows[j].status = "paused"
            THEN /\ resume_job(j) = <<TRUE, "queued">>
                 /\ rows'[j].status = "queued"
                 /\ rows'[j].paused_at = Null
                 /\ rows'[j].error_message = << >>
                 /\ rows'[j].eta_seconds = Null
                 /\ rows'[j].speed_bps = Null
                 /\ rows'[j].progress_percent = rows[j].progress_percent
                 /\ rows'[j].downloaded_bytes = rows[j].downloaded_bytes
                 /\ rows'[j].total_bytes = rows[j].total_bytes
                 /\ rows'[j].attempt_current = rows[j].attempt_current
                 /\ rows'[j].attempt_max = rows[j].attempt_max
            ELSE /\ resume_job(j) = <<FALSE, "invalid_state">>
                 /\ rows' = rows ]_vars

\* C18 witness: a job paused in the middle of its download is queued again
\* with its progress and attempt counters kept
C18_Witness ==
  \E j \in DOMAIN rows :
    /\ rows[j].status = "queued"
    /\ rows[j].paused_at = Null
    /\ rows[j].error_message = << >>
    /\ rows[j].downloaded_bytes > 0
    /\ rows[j].attempt_current > 0

\* C19: retry applies exactly when the row is failed or paused: it sets
\* status queued, raises attempt_max by 1, sets attempt_current to 0, zeroes
\* progress_percent and downloaded_bytes and clears the error fields and
\* failed_at, completed_at and paused_at; in every other status it returns
\* invalid_state and leaves the row unchanged.
C19_RetryFrame ==
  [][ \A j \in JobIds :
        ( RetryJob(j) /\ Exists(j) ) =>
          IF rows[j].status \in {"failed", "paused"}
            THEN /\ retry_job(j) = <<TRUE, "queued">>
                 /\ rows'[j].status = "queued"
                 /\ rows'[j].attempt_max = rows[j].attempt_max + 1
                 /\ rows'[j].attempt_current = 0
                 /\ rows'[j].progress_percent = 0
                 /\ rows'[j].downloaded_bytes = 0
                 /\ rows'[j].error_message = << >>
                 /\ rows'[j].last_exception_type = "null"
                 /\ rows'[j].failed_at = Null
                 /\ rows'[j].completed_at = Null
                 /\ rows'[j].paused_at = Null
            ELSE /\ retry_job(j) = <<FALSE, "invalid_state">>
                 /\ rows' = rows ]_vars

\* C19 witness: a job whose run downloaded bytes and then failed has been
\* retried
C19_Witness ==
  \E j \in DOMAIN rows :
    /\ rows[j].status = "queued"
    /\ rows[j].attempt_current = 0
    /\ rows[j].attempt_max > 1
    /\ rows[j].downloaded_bytes = 0
    /\ \E a \in attempts : a.download_id = j /\ a.status = "failed"

C21_RecoveryExact ==
  [][ Restart =>
        LET res == recover_interrupted_downloads(clock)
            interrupted == {r \in DOMAIN rows : rows[r].status = "downloading"}
        IN /\ DOMAIN rows' = DOMAIN rows
           /\ \A r \in DOMAIN rows :
                IF r \in interrupted
                  THEN /\ rows'[r].status = "failed"
                       /\ rows'[r].error_message = <<"interrupted_by_restart">>
                       /\ rows'[r].failed_at = clock
                  ELSE rows'[r] = rows[r]
           /\ res.rowcount = Cardinality(interrupted)
           /\ \A r \in DOMAIN rows' : rows'[r].status # "downloading"
           /\ interrupted = {} => ( rows' = rows /\ res.rowcount = 0 ) ]_vars

\* C21 witness: a restart failed the job that was downloading and left the
\* job completed before it as it was
C21_Witness ==
  \E a, b \in DOMAIN rows :
    /\ rows[a].status = "failed"
    /\ rows[a].error_message = <<"interrupted_by_restart">>
    /\ rows[b].status = "completed"
    /\ rows[b].completed_at < rows[a].failed_at
    /\ rows[b].updated_at = rows[b].completed_at


\* the store write of a progress report: the row takes the five values the
\* hook computed
ProgressWritten(j) ==
  ( WorkerUpdateProgress(j) /\ Exists(j) ) =>
     /\ rows'[j].progress_percent = worker[j].pend[1]
     /\ rows'[j].downloaded_bytes = worker[j].pend[2]
     /\ rows'[j].total_bytes = worker[j].pend[3]
     /\ rows'[j].speed_bps = worker[j].pend[4]
     /\ rows'[j].eta_seconds = worker[j].pend[5]

\* C22 as stated: with the cancel signal unset, a finished event reporting
\* downloaded D and total T leaves the row with progress_percent = 100,
\* downloaded_bytes = D, total_bytes = T (or D when T is absent), speed_bps
\* null and eta_seconds 0, whatever was dropped by the rate limit before.
C22_FinishedWritesTotalOrDownloaded ==
  [][ \A j \in JobIds :
        /\ ( worker[j].pc = "extract" /\ worker'[j] # worker[j] /\ ~cancel[j] ) =>
           \A e \in TimedEvents :
             ( e.status = "finished" /\ ProgressHook(j, e) ) =>
                /\ worker'[j].pc = "update_progress"
                /\ worker'[j].pend =
                     << 10000, e.downloaded_bytes,
                        IF e.total_bytes # 0 THEN e.total_bytes ELSE e.downloaded_bytes,
                        Null, 0 >>
        /\ ProgressWritten(j) ]_vars

\* C22: with the cancel signal unset, a finished event reporting downloaded D
\* and total T leaves the row with progress_percent = 100, downloaded_bytes =
\* D, total_bytes = T (or, when T is absent, the event's total_bytes_estimate,
\* or D when that is absent too), speed_bps null and eta_seconds 0, whatever
\* was dropped by the rate limit before.
C22_FinishedWritesTotalEstimateOrDownloaded ==
  [][ \A j \in JobIds :
        /\ ( worker[j].pc = "extract" /\ worker'[j] # worker[j] /\ ~cancel[j] ) =>
           \A e \in TimedEvents :
             ( e.status = "finished" /\ ProgressHook(j, e) ) =>
                /\ worker'[j].pc = "update_progress"
                /\ worker'[j].pend =
                     << 10000, e.downloaded_bytes,
                        IF e.total_bytes # 0 THEN e.total_bytes
                        ELSE IF e.total_bytes_estimate # 0 THEN e.total_bytes_estimate
                        ELSE e.downloaded_bytes,
                        Null, 0 >>
        /\ ProgressWritten(j) ]_vars

\* C22 witness: after a downloading event was written, a finished event that
\* carried an estimate of the total only has been written
C22_Witness ==
  \E j \in DOMAIN rows :
    /\ worker[j].pc = "extract"
    /\ worker[j].last_flush > 0
    /\ rows[j].progress_percent = 10000
    /\ rows[j].downloaded_bytes = 2
    /\ rows[j].total_bytes = 1
    /\ rows[j].speed_bps = Null
    /\ rows[j].eta_seconds = 0


\* C23: metadata serialisation on finish_ok is total: for every extractor
\* info dict, serialisation yields a JSON string without raising and the
\* completion transition is applied (the row becomes completed with
\* metadata_json set).
C23_SerialisationTotal ==
  [][ \A j \in JobIds, info \in Infos :
        ( WorkerFinishOk(j, info) /\ Exists(j) ) =>
           /\ _to_json_string(info).raised = "null"
           /\ rows'[j].status = "completed"
           /\ rows'[j].metadata_json # "null" ]_vars


\* the name resolves to a location outside the storage root
Outside(path) ==
  LET base == realpath(base_download_dir) IN
    commonpath(realpath(join(base_download_dir, path)), base) # base

\* C24: a POST /delete whose file name resolves outside the storage root is
\* answered with 403 and removes no file.
C24_TraversalRejected ==
  [][ \A filename \in Filenames :
        ( DeleteVideo(filename) /\ filename # << >> /\ Outside(filename) ) =>
           /\ delete_video(filename).status = 403
           /\ files' = files ]_vars


\* C25: the cleanup performed by delete(id) removes only files located under
\* the storage root, whatever the stored media_local_path and
\* thumbnail_local_path are (absolute paths, paths with .. segments and
\* backslashes included), while the media file and its .info.json, .jpg,
\* .webp and .png siblings inside the root are removed when present.
C25_CleanupInsideRoot ==
  [][ \A c \in Callers, j \in JobIds :
        DeleteReturnsDeleted(c, j) =>
          LET base == realpath(base_download_dir)
              media_path == record[c][j].media_local_path
              named == IF media_path = << >> THEN {}
                       ELSE {media_path} \cup
                            { splitext(media_path) \o <<ext>> :
                                ext \in {".info.json", ".jpg", ".webp", ".png"} }
          IN /\ files' \subseteq files
             /\ \A f \in files \ files' : commonpath(f, base) = base
             /\ \A path \in named :
                  ~Outside(path) => realpath(join(base_download_dir, path)) \notin files' ]_vars

\* C25 witness: the job is deleted and its media file and sidecars are gone,
\* while the files outside the storage root are all in place
C25_Witness ==
  /\ Known(1) /\ ~Exists(1)
  /\ \A f \in InitialFiles : Head(f) # <<"data">> => f \in files
  /\ \A ext \in Extensions : << <<"data">>, <<"a", ext>> >> \notin files


\* C26: begin(job, attempt_no, attempt_max, profile) applies exactly when the
\* row's status is queued or retrying: it then sets status downloading,
\* attempt_current, attempt_max and runtime_profile and clears error_message
\* and last_exception_type; in every other status, and without a row, it
\* returns false and leaves the table unchanged.
C26_BeginFrame ==
  [][ \A j \in JobIds :
        WorkerBegin(j) =>
          IF Exists(j) /\ rows[j].status \in {"queued", "retrying"}
            THEN /\ worker'[j].pc = "create_attempt"
                 /\ rows'[j].status = "downloading"
                 /\ rows'[j].attempt_current = worker[j].attempt_no
                 /\ rows'[j].attempt_max = worker[j].attempt_max
                 /\ rows'[j].runtime_profile = Profile(j)
                 /\ rows'[j].error_message = << >>
                 /\ rows'[j].last_exception_type = "null"
            ELSE /\ worker'[j].pc = "returned"
                 /\ rows' = rows ]_vars

\* C26 witness: a begin that found its row paused has returned, and the row
\* is as the pause left it
C26_Witness ==
  \E j \in DOMAIN rows :
    /\ worker[j].pc = "returned"
    /\ worker[j].attempt_id = 0
    /\ worker[j].attempt_no = 1
    /\ rows[j].status = "paused"
    /\ rows[j].attempt_current = 0
    /\ rows[j].runtime_profile = "null"


\* C27: status transitions are linearisable per job id: of pause_queued and
\* begin racing on one queued row exactly one applies, and of resume and
\* retry racing on one paused row exactly one applies; the row's final status
\* is that of a serial order of the two calls (the call that comes first
\* applies and leaves a row on which the other does not).
C27_OneOfTwoApplies ==
  [][ \A j \in JobIds :
        /\ \A c \in Callers :
             ( PauseJob(c, j) /\ Exists(j) /\ rows[j].status = "queued" ) =>
                /\ rows'[j].status = "paused"
                /\ set_downloading(j, 1, 1, "primary", clock)'.rowcount = 0
        /\ ( WorkerBegin(j) /\ Exists(j) /\ rows[j].status = "queued" ) =>
                /\ rows'[j].status = "downloading"
                /\ pause_queued(j, clock)'.rowcount = 0
        /\ ( ResumeJob(j) /\ Exists(j) /\ rows[j].status = "paused" ) =>
                /\ rows'[j].status = "queued"
                /\ retry_download(j, clock)'.rowcount = 0
        /\ ( RetryJob(j) /\ Exists(j) /\ rows[j].status = "paused" ) =>
                /\ rows'[j].status = "queued"
                /\ resume_paused(j, clock)'.rowcount = 0 ]_vars

\* C27 witness: a pause request and the begin of the worker met on a queued
\* row; begin came first, so the pause request found the row downloading
C27_Witness ==
  \E j \in DOMAIN rows :
    /\ worker[j].pc = "create_attempt"
    /\ rows[j].status = "downloading"
    /\ ctl[1][j] = [op |-> "pause", pc |-> "lookup"]


\* C28: if a job is paused by pause_queued after the scheduler has handed it
\* to a worker but before that worker's begin, the worker's begin fails and
\* the worker returns without creating an attempt row, without invoking the
\* extractor and without changing the row, which stays paused.
C28_PausedBeforeBegin ==
  [][ \A j \in JobIds :
        ( /\ worker[j].pc \in {"start", "begin"}
          /\ Exists(j) /\ rows[j].status = "paused" /\ ~cancel[j]
          /\ worker'[j] # worker[j] /\ worker'[j].pc # "idle" ) =>
           /\ worker'[j].pc = IF worker[j].pc = "start" THEN "begin" ELSE "returned"
           /\ rows' = rows
           /\ attempts' = attempts
           /\ lastAttempt' = lastAttempt ]_vars

\* C28 witness: the run of a job paused while it waited for its worker has
\* returned; the row is as pause_queued left it and there is no attempt row
C28_Witness ==
  \E j \in DOMAIN rows :
    /\ worker[j].pc = "returned"
    /\ j \in active
    /\ rows[j].status = "paused"
    /\ rows[j].paused_at # Null
    /\ rows[j].error_message = << >>
    /\ rows[j].attempt_current = 0
    /\ attempts = {}
    /\ lastAttempt = 0


\* an invocation of the progress hook with the cancel signal set raises
\* PauseRequested: nothing is handed to the store, whatever the event is
HookRaisesOnceCancelled(j) ==
  \A e \in PlainEvents :
    ( cancel[j] /\ ProgressHook(j, e) ) =>
       /\ worker'[j].pc = "pause_requested"
       /\ worker'[j].pend = << >>
       /\ rows' = rows

\* C29 as stated: once a job's cancel signal is set, every later invocation
\* of the worker's progress hook raises PauseRequested before any store
\* write, for every event status, so the worker writes no progress after
\* cancellation.
C29_NoProgressAfterCancel ==
  [][ \A j \in JobIds :
        /\ HookRaisesOnceCancelled(j)
        /\ ( cancel[j] /\ WorkerUpdateProgress(j) ) => rows' = rows ]_vars

\* C29: once a job's cancel signal is set, every later invocation of the
\* worker's progress hook raises PauseRequested before any store write, for
\* every event status, so the worker starts no progress write after
\* cancellation; only a write whose invocation had passed the test of the
\* signal before it was set is still committed.
C29_NoHookWriteAfterCancel ==
  [][ \A j \in JobIds :
        /\ HookRaisesOnceCancelled(j)
        /\ ( cancel[j] /\ worker[j].pc # "update_progress" ) =>
             worker'[j].pc # "update_progress" ]_vars

\* C29 witness: the hook of a cancelled run has raised, with the row still
\* downloading
C29_Witness ==
  \E j \in DOMAIN rows :
    /\ cancel[j]
    /\ worker[j].pc = "pause_requested"
    /\ rows[j].status = "downloading"


\* C30: within one attempt, two consecutive progress writes caused by
\* downloading events are at least flush_interval apart (flush_interval is
\* never below 100 ms), a downloading event arriving sooner causes no store
\* write, and a finished event is always written, whatever the time since the
\* last write.
C30_RateLimit ==
  [][ \A j \in JobIds :
        /\ \A ms \in FlushSettings : progress_flush_interval_s(ms) >= 100
        /\ ( worker[j].pc = "extract" /\ ~cancel[j] ) =>
             \A e \in TimedEvents :
               ProgressHook(j, e) =>
                 CASE e.status = "finished" ->
                        worker'[j].pc = "update_progress"
                   [] e.status = "downloading" ->
                        IF Monotonic - worker[j].last_flush < FlushInterval
                          THEN worker'[j] = worker[j]
                          ELSE /\ worker'[j].pc = "update_progress"
                               /\ worker'[j].last_flush = Monotonic
                   [] OTHER -> worker'[j] = worker[j]
        /\ ( /\ WorkerUpdateProgress(j) /\ Exists(j)
             /\ worker[j].pend[4] # Null
             /\ rows[j].speed_bps # Null ) =>
             worker[j].stamp - rows[j].updated_at >= FlushInterval ]_vars

\* C30 witness: a second downloading event, one interval after the one
\* written before it, is on its way to the store
C30_Witness ==
  \E j \in DOMAIN rows :
    /\ worker[j].pc = "update_progress"
    /\ worker[j].pend[4] # Null
    /\ rows[j].speed_bps # Null
    /\ worker[j].stamp = rows[j].updated_at + FlushInterval

\* C31: a row's status changes to failed only from downloading or retrying;
\* no row that is paused, queued or completed is moved to failed, under any
\* interleaving of the worker with pause, resume and retry.
C31_FailedOnlyFromRunning ==
  [][ \A j \in JobIds :
        ( /\ Exists(j)
          /\ j \in DOMAIN rows'
          /\ rows[j].status # "failed"
          /\ rows'[j].status = "failed" )
        => rows[j].status \in {"downloading", "retrying"} ]_vars

\* the attempt row of the current attempt of the run of job j
CurrentAttempt(j) == { a \in attempts : a.id = worker[j].attempt_id }

\* C32: a cooperative pause is not recorded as an error on the job: the
\* message paused_by_user appears only on the attempt row, never as the
\* error_message of a job row.
C32_PauseMessageOnlyOnAttempt ==
  \A j \in DOMAIN rows : rows[j].error_message # <<"paused_by_user">>

\* C32 (amended): the cooperative pause of a run leaves the job row paused
\* with error_message paused_by_user and with last_exception_type and
\* failed_at as they were, and finalizes the attempt row as paused with the
\* same message.
C32_PauseNotAFailure ==
  [][ \A j \in JobIds :
        /\ ( worker[j].pc = "pause_requested" /\ worker'[j].pc = "finalize_paused"
             /\ Exists(j) )
           => ( /\ rows'[j].status = "paused"
                /\ rows'[j].error_message = <<"paused_by_user">>
                /\ rows'[j].last_exception_type = rows[j].last_exception_type
                /\ rows'[j].failed_at = rows[j].failed_at )
        /\ ( worker[j].pc = "finalize_paused" /\ worker'[j].pc = "returned" )
           => \A a \in attempts' :
                a.id = worker[j].attempt_id
                => ( /\ a.status = "paused"
                     /\ a.error_message = <<"paused_by_user">>
                     /\ a.exception_type = "PauseRequestedError" ) ]_vars

\* C32 witness: a run has unwound from a pause request and returned, its
\* attempt row and its job row both paused
C32_Witness ==
  \E j \in DOMAIN rows :
    /\ worker[j].pc = "returned"
    /\ cancel[j]
    /\ rows[j].status = "paused"
    /\ \E a \in CurrentAttempt(j) : a.status = "paused"

\* the attempt rows a step has inserted
Inserted == attempts' \ attempts

\* the attempt row the run of job j created before its current attempt
PreviousAttempt(j) == { a \in attempts : a.id = worker[j].attempt_id }

\* C33: for each job the attempt_no values of its attempt rows are, in
\* creation order, 1, 2, 3, ... over the job's whole lifetime, no value
\* repeated, also after the job was paused and resumed or retried.
C33_AttemptNoUniquePerJob ==
  \A a, b \in attempts :
    ( a.download_id = b.download_id /\ a.id < b.id ) => a.attempt_no < b.attempt_no

\* C33 (amended): attempt_no is 1-based within each worker run: the first
\* attempt row a run creates has attempt_no 1 and every further one follows
\* the run's previous attempt by one, whatever rows earlier runs of the job
\* have left.
C33_AttemptNoPerRun ==
  [][ \A j \in JobIds :
        ( worker[j].pc = "create_attempt" /\ worker'[j].pc = "extract" )
        => \A a \in Inserted :
             /\ a.download_id = j
             /\ IF worker[j].attempt_id = 0
                  THEN a.attempt_no = 1
                  ELSE \A p \in PreviousAttempt(j) : a.attempt_no = p.attempt_no + 1 ]_vars

\* C33 witness: a job that was retried or resumed has two attempt rows, both
\* numbered 1
C33_Witness ==
  \E a, b \in attempts :
    /\ a.download_id = b.download_id
    /\ a.id < b.id
    /\ a.attempt_no = 1
    /\ b.attempt_no = 1

\* C34: whenever a row's status is downloading or retrying a worker holds the
\* lease on it: the job's id is in the active map, so that a pause request
\* finds its handle and cancel signal.
C34_RunningRowHasLease ==
  \A j \in DOMAIN rows :
    rows[j].status \in {"downloading", "retrying"} => j \in active

FurtherAttemptDue(j) ==
  /\ Profile(j) = "primary"
  /\ worker[j].attempt_no < worker[j].attempt_max
  /\ \E tok \in RETRYABLE_ERROR_TOKENS : Contains(worker[j].message, tok)

\* C36: an attempt's error leads to a further attempt exactly when the
\* attempt's profile is primary, it is not the last attempt of the plan and
\* the lower-cased message contains one of the tokens; then the run creates
\* the next attempt.  In every other case the worker calls finish_fail and the
\* job ends failed, for DownloadError and for any other exception type alike.
C36_RetryExactlyWhenRetryable ==
  [][ \A j \in JobIds :
        /\ ( worker[j].pc = "finalize_failed" /\ worker'[j] # worker[j] )
           => IF FurtherAttemptDue(j)
                THEN worker'[j].pc = "begin" /\ worker'[j].attempt_no = worker[j].attempt_no + 1
                ELSE worker'[j].pc = "finish_fail"
        /\ ( worker[j].pc = "finish_fail" /\ worker'[j] # worker[j] /\ Exists(j) )
           => rows'[j].status = "failed"
        /\ ( worker[j].pc = "begin" /\ worker[j].attempt_no > 1 /\ worker'[j] # worker[j] )
           => worker'[j].pc = "create_attempt" ]_vars

\* C37: the scheduler never blocks on the active-map mutex: no call of
\* _try_start_job is left waiting for the lock it holds, also when the
\* submitted run is over before its done-callback is registered.
C37_TryStartJobReturns ==
  starting.pc # "blocked"

\* C38: once a row's status is completed it stays completed as long as the
\* row exists: no pause, resume, retry, scheduler or worker step changes it.
C38_CompletedIsFinal ==
  [][ \A j \in JobIds :
        ( Exists(j) /\ rows[j].status = "completed" /\ j \in DOMAIN rows' )
        => rows'[j].status = "completed" ]_vars

\* C39: after a successful resume the job does not become paused again
\* unless a pause request is made: a queued row is moved to paused by the
\* step of a pause request only, never by a step of a worker run that is
\* still unwinding from an earlier pause.
C39_ResumedStaysQueued ==
  [][ \A j \in JobIds :
        ( /\ Exists(j)
          /\ rows[j].status = "queued"
          /\ j \in DOMAIN rows'
          /\ rows'[j].status = "paused" )
        => worker'[j] = worker[j] ]_vars

\* C40: when a worker run has returned and its job row still exists, every
\* attempt row the run created has a final status (completed, failed or
\* paused) with ended_at set and none is left in status started.  Without a
\* process restart every earlier run of the job has returned as well, so the
\* same holds of all the attempt rows of the job.
C40_AttemptsFinalized ==
  \A j \in JobIds :
    ( worker[j].pc = "returned" /\ Exists(j) )
    => \A a \in attempts :
         a.download_id = j
         => ( a.status \in {"completed", "failed", "paused"} /\ a.ended_at # Null )

\* C40 witness: a run has returned after a retryable failure of its first
\* attempt, with the job row and the attempt row still there
C40_Witness ==
  \E j \in DOMAIN rows :
    /\ worker[j].pc = "returned"
    /\ worker[j].attempt_no = 2
    /\ \E a \in attempts :
         a.download_id = j /\ a.status = "failed" /\ a.exception_type = "DownloadError"

====
